---- MODULE Spec2Model ----
(***************************************************************************)
(* Model of the widgets of src/views: ItemButton (item_widget.py) with its *)
(* reveal / auto-hide state machine, click, open and execute_command       *)
(* handlers, QuickAccessPanel, BookmarksPanel and ProjectCardWidget.       *)
(* Every widget runs on the single threaded Qt event loop, so each handler *)
(* is one atomic action.                                                   *)
(***************************************************************************)
EXTENDS Integers, Sequences, FiniteSets, TLC

VARIABLES
  item,      \* item[b]: the Item the widget b displays, with its display options
  button,    \* button[b]: the fields of the ItemButton instance b
  hist,      \* hist[b]: history of the calls made on / by ItemButton b
  clock,     \* the time source the usage tracker stamps its tokens with
  clipboard, \* the text on the system clipboard
  panel,     \* the QuickAccessPanel
  bookmarks, \* the BookmarksPanel and the bookmarks of its database
  card       \* a ProjectCardWidget

vars == <<item, button, hist, clock, clipboard, panel, bookmarks, card>>

----------------------------------------------------------------------------
(* Bounds of the model *)

MaxToggles == 4     \* toggle_reveal clicks per widget
MaxTimers  == 3     \* QTimer objects created per widget
MaxLen     == 2     \* length of an item's content
MaxExecs   == 2     \* execute_command clicks per widget
MaxPending == 2     \* style resets waiting in the event loop per widget
MaxClicks  == 2     \* clicks on a widget or on one of its open / render buttons
MaxFrameOps == 2    \* clicks in all when two widgets are worked with
MaxPanelClicks == 2 \* clicks on action buttons of the quick access panel
MaxBookmarks == 3   \* bookmarks ever saved in the database
MaxPresses == 3     \* mouse presses on a project card

----------------------------------------------------------------------------
(* Values *)

Buttons == {"A", "B"}

Chars == {" ", "x"}

RECURSIVE SeqsUpTo(_)
SeqsUpTo(n) ==
  IF n = 0 THEN {<<>>}
  ELSE LET S == SeqsUpTo(n - 1)
       IN  S \cup {Append(s, c) : s \in {q \in S : Len(q) = n - 1}, c \in Chars}

\* Python's None where a string is expected (not a sequence over Chars)
NoneStr == <<"None">>

\* Python's None where a message, a path or a style is expected
None == "None"

\* self.reveal_timer = None
NoTimer == 0

\* ItemType members the handlers distinguish
ItemTypes == {"TEXT", "URL", "PATH", "CODE"}

ItemId(b) == IF b = "A" THEN 1 ELSE 2

----------------------------------------------------------------------------
(* get_display_text: the text of label_widget, as the list display_parts   *)
(* that the code joins with " | ".  Description and tags are parts that do *)
(* not depend on the widget's state; the items of the model have neither.  *)

MAX_CONTENT_LENGTH == 100

\* content[:MAX_CONTENT_LENGTH], plus "..." when the content is longer
Truncate(content) ==
  IF Len(content) > MAX_CONTENT_LENGTH
    THEN Append(SubSeq(content, 1, MAX_CONTENT_LENGTH), "...")
    ELSE content

\* get_display_text that shows sensitive content whether revealed or not
get_display_text_unmasked(it, revealed) ==
  LET labelPart == IF it.show_labels THEN << <<"label", it.label>> >> ELSE <<>>
      contentPart ==
        IF ~it.show_content THEN <<>>
        ELSE IF it.is_sensitive THEN << <<"unlocked", Truncate(it.content)>> >>
        ELSE IF it.content # <<>> /\ it.content # NoneStr
               THEN << <<"plain", Truncate(it.content)>> >>
        ELSE <<>>
      display_parts == labelPart \o contentPart
  IN  IF display_parts # <<>> THEN display_parts ELSE << <<"label", it.label>> >>

get_display_text(it, revealed) ==
  LET labelPart == IF it.show_labels THEN << <<"label", it.label>> >> ELSE <<>>
      contentPart ==
        IF ~it.show_content THEN <<>>
        ELSE IF it.is_sensitive /\ ~revealed THEN << <<"locked", <<"********">> >> >>
        ELSE IF it.is_sensitive /\ revealed
               THEN << <<"unlocked", Truncate(it.content)>> >>
        ELSE IF it.content # <<>> /\ it.content # NoneStr
               THEN << <<"plain", Truncate(it.content)>> >>
        ELSE <<>>
      display_parts == labelPart \o contentPart
  IN  IF display_parts # <<>> THEN display_parts ELSE << <<"label", it.label>> >>

----------------------------------------------------------------------------
(* QTimer: the event loop holds the set of running timers of a widget.     *)
(* A timer object that the widget no longer references is kept in the set  *)
(* until it is stopped or fires.                                           *)

\* a stop() that leaves the timer running
QTimerStopNoop(running, t) == running

\* QTimer.stop()
QTimerStop(running, t) == running \ {t}

\* a start() that never schedules the timer
QTimerStartNoop(running, t) == running

\* QTimer.start(msec) of a single-shot timer
QTimerStart(running, t) == running \cup {t}

----------------------------------------------------------------------------
(* toggle_reveal and auto_hide, on the fields w of one ItemButton          *)

\* toggle_reveal that sets is_revealed instead of negating it
toggle_reveal_always_reveals(w, it) ==
  LET t == w.timers_made + 1
  IN  [w EXCEPT !.is_revealed = TRUE,
                !.label_text = get_display_text(it, TRUE),
                !.reveal_text = "hide",
                !.reveal_timer = t,
                !.timers_made = t,
                !.running = QTimerStart(
                    IF w.reveal_timer # NoTimer
                      THEN QTimerStop(w.running, w.reveal_timer) ELSE w.running, t)]

\* toggle_reveal whose hide branch leaves the timer running
toggle_reveal_hide_keeps_timer(w, it) ==
  IF w.is_revealed
    THEN [w EXCEPT !.is_revealed = FALSE,
                   !.label_text = get_display_text(it, FALSE),
                   !.reveal_text = "reveal"]
    ELSE LET t == w.timers_made + 1
         IN  [w EXCEPT !.is_revealed = TRUE,
                       !.label_text = get_display_text(it, TRUE),
                       !.reveal_text = "hide",
                       !.reveal_timer = t,
                       !.timers_made = t,
                       !.running = (IF w.reveal_timer # NoTimer
                                      THEN @ \ {w.reveal_timer} ELSE @) \cup {t}]

toggle_reveal(w, it) ==
  LET revealed == ~w.is_revealed
      w1 == [w EXCEPT !.is_revealed = revealed,
                      !.label_text = get_display_text(it, revealed)]
  IN  IF revealed
        THEN LET stopped == IF w1.reveal_timer # NoTimer
                              THEN QTimerStop(w1.running, w1.reveal_timer)
                              ELSE w1.running
                 t == w1.timers_made + 1
             IN  [w1 EXCEPT !.reveal_text = "hide",
                            !.reveal_timer = t,
                            !.timers_made = t,
                            !.running = QTimerStart(stopped, t)]
        ELSE [w1 EXCEPT !.reveal_text = "reveal",
                        !.running = IF w1.reveal_timer # NoTimer
                                      THEN QTimerStop(w1.running, w1.reveal_timer)
                                      ELSE w1.running]

\* auto_hide without its is_revealed test
auto_hide_unguarded(w, it) == toggle_reveal(w, it)

auto_hide(w, it) == IF w.is_revealed THEN toggle_reveal(w, it) ELSE w

----------------------------------------------------------------------------
(* execute_command: the handler of execute_button, on the fields w of one  *)
(* ItemButton.  The frame f holds the handler's local variables and the    *)
(* calls it has made so far.                                               *)

\* a local variable that has not been assigned
UNBOUND == "UNBOUND"
UnboundStr == <<"UNBOUND">>

TIMEOUT_SECONDS == 30

TimeoutMsg == "Comando excedio el tiempo de espera (30 segundos)"
UnknownErrorMsg == "Error desconocido"

\* str.strip()
RECURSIVE LStrip(_)
LStrip(s) == IF s # <<>> /\ Head(s) = " " THEN LStrip(Tail(s)) ELSE s

RECURSIVE RStrip(_)
RStrip(s) ==
  IF s # <<>> /\ s[Len(s)] = " " THEN RStrip(SubSeq(s, 1, Len(s) - 1)) ELSE s

Strip(s) == RStrip(LStrip(s))

\* Path(p).exists() and Path(p).is_dir(), in the file system of the model
IsDir(p) == p = "okdir"

\* what subprocess.run does with the command: returns a CompletedProcess,
\* raises TimeoutExpired, or fails to launch the shell (OSError)
RunResults ==
  [kind : {"exit"}, returncode : {0, 1}, stdout : {"out"}, stderr : {"", "err"}]
    \cup {[kind |-> k, returncode |-> 0, stdout |-> "", stderr |-> ""] :
            k \in {"timeout", "oserror"}}

\* the environment of one call: the result of subprocess.run and the
\* ordinals of the CommandOutputDialog calls that raise (a second dialog is
\* only built after the first one raised)
Envs == [run : RunResults, dialog_raises : {{}, {1}, {1, 2}}]

\* subprocess.run was not called
NoRun == [kind |-> "none", returncode |-> 0, stdout |-> "", stderr |-> ""]

NoCall ==
  [tracker |-> <<>>, dialogs |-> <<>>, run_calls |-> 0, run_args |-> <<>>,
   warnings |-> 0, escaped |-> "none", run |-> NoRun]

\* UsageTracker.track_execution_start: the token is the start time
track_execution_start(now) == now + 1

NewFrame(w, token) ==
  [command |-> UnboundStr, original_style |-> UNBOUND,
   start_time |-> token, success |-> FALSE, error_msg |-> None,
   exc |-> "none",
   style |-> w.exec_style, text |-> w.exec_text, pending |-> w.pending,
   tracker |-> <<>>, dialogs |-> <<>>, run_calls |-> 0, run_args |-> <<>>,
   warnings |-> 0]

\* CommandOutputDialog(...).exec(): records the result shown; the call
\* raises when the environment says so
ShowDialog(f, env, command, output, error, return_code) ==
  LET n == Len(f.dialogs) + 1
      raises == n \in env.dialog_raises
  IN  [f EXCEPT !.dialogs = Append(@, [command |-> command, output |-> output,
                                       error |-> error, return_code |-> return_code,
                                       raised |-> raises]),
                !.exc = IF raises THEN "RuntimeError" ELSE f.exc]

\* QTimer.singleShot(1000, lambda: execute_button.setStyleSheet(original_style))
ScheduleReset(f) == [f EXCEPT !.pending = Append(@, f.original_style)]

\* success for every return code of a completed process
SuccessOfAnyCode(return_code) == return_code >= 0

\* success = (return_code == 0)
SuccessOf(return_code) == return_code = 0

\* a working directory passed on without the exists / is_dir test
WorkingDirectoryUnchecked(wd) == IF wd # None /\ wd # "" THEN wd ELSE None

\* cwd: the item's working directory when it is set and is a directory
WorkingDirectory(wd) == IF wd # None /\ wd # "" /\ IsDir(wd) THEN wd ELSE None

\* the try block
TryBody(it, f, env) ==
  IF it.content = NoneStr
    THEN [f EXCEPT !.exc = "AttributeError"]
    ELSE
      LET f1 == [f EXCEPT !.command = Strip(it.content),
                          !.original_style = f.style,
                          !.style = "yellow",
                          !.text = "wait"]
          wd == it.working_dir
          cwd == WorkingDirectory(wd)
          f2 == [f1 EXCEPT !.warnings =
                   IF wd # None /\ wd # "" /\ ~IsDir(wd) THEN @ + 1 ELSE @]
          f3 == [f2 EXCEPT !.run_calls = @ + 1,
                           !.run_args = <<f1.command, cwd, TIMEOUT_SECONDS>>]
          result == env.run
      IN  IF result.kind = "timeout" THEN [f3 EXCEPT !.exc = "TimeoutExpired"]
          ELSE IF result.kind = "oserror" THEN [f3 EXCEPT !.exc = "OSError"]
          ELSE
            LET success == SuccessOf(result.returncode)
                f4 == [f3 EXCEPT
                         !.success = success,
                         !.text = "bolt",
                         !.style = IF success THEN "green" ELSE "red",
                         !.error_msg =
                           IF success THEN @
                           ELSE IF result.stderr # "" THEN result.stderr
                           ELSE UnknownErrorMsg]
            IN  ShowDialog(ScheduleReset(f4), env, f4.command, result.stdout,
                           result.stderr, result.returncode)

\* a timeout handler that reports a successful, empty result
ExceptTimeoutExpiredAsSuccess(f, env) ==
  ShowDialog(ScheduleReset([f EXCEPT !.exc = "none", !.text = "bolt",
                                     !.style = "green"]),
             env, f.command, "", "", 0)

\* except subprocess.TimeoutExpired
ExceptTimeoutExpired(f, env) ==
  LET f1 == [f EXCEPT !.exc = "none",
                      !.error_msg = TimeoutMsg,
                      !.text = "bolt",
                      !.style = "red"]
  IN  ShowDialog(ScheduleReset(f1), env, f1.command, "", f1.error_msg, -1)

\* except Exception as e
ExceptException(it, f, env) ==
  LET f1 == [f EXCEPT !.exc = "none",
                      !.error_msg = f.exc,
                      !.text = "bolt",
                      !.style = "red"]
  IN  ShowDialog(ScheduleReset(f1), env,
                 IF f1.command # UnboundStr THEN f1.command ELSE it.content,
                 "", f1.error_msg, -1)

\* the tracking end as the last statement of the handler instead of a finally
FinallyBlockUnlessRaised(it, f) ==
  IF f.exc # "none" THEN f
  ELSE [f EXCEPT !.tracker = Append(@, [op |-> "end", id |-> it.id,
                                        token |-> f.start_time,
                                        success |-> f.success,
                                        error |-> f.error_msg])]

\* finally: usage_tracker.track_execution_end(...)
FinallyBlock(it, f) ==
  [f EXCEPT !.tracker = Append(@, [op |-> "end", id |-> it.id,
                                   token |-> f.start_time,
                                   success |-> f.success,
                                   error |-> f.error_msg])]

\* the body of execute_command for a CODE item
execute_command(it, w, token, env) ==
  LET f0 == [NewFrame(w, token) EXCEPT
               !.tracker = <<[op |-> "start", id |-> it.id, token |-> token,
                              success |-> FALSE, error |-> None]>>]
      fT == TryBody(it, f0, env)
      fH == IF fT.exc = "none" THEN fT
            ELSE IF fT.exc = "TimeoutExpired" THEN ExceptTimeoutExpired(fT, env)
            ELSE ExceptException(it, fT, env)
  IN  FinallyBlock(it, fH)

----------------------------------------------------------------------------
(* QuickAccessPanel and BookmarksPanel, as constructed *)

\* the actions the module docstring lists, each with the signal declared
\* for it
Documented ==
  [Statistics      |-> "stats_clicked",
   TablesManager   |-> "tables_manager_clicked",
   Favorites       |-> "favorites_clicked",
   Dashboard       |-> "dashboard_clicked",
   Browser         |-> "browser_clicked",
   CategoryFilter  |-> "category_filter_clicked"]

\* the handlers of the class and the signal each of them emits
Handlers ==
  [on_table_creator_clicked     |-> "table_creator_clicked",
   on_tables_manager_clicked    |-> "tables_manager_clicked",
   on_favorites_clicked         |-> "favorites_clicked",
   on_stats_clicked             |-> "stats_clicked",
   on_browser_clicked           |-> "browser_clicked",
   on_category_filter_clicked   |-> "category_filter_clicked",
   on_dashboard_clicked         |-> "dashboard_clicked",
   on_create_process_clicked    |-> "create_process_clicked",
   on_view_processes_clicked    |-> "view_processes_clicked",
   on_ai_bulk_clicked           |-> "ai_bulk_clicked",
   on_ai_table_clicked          |-> "ai_table_clicked",
   on_pinned_panels_clicked     |-> "pinned_panels_clicked",
   on_advanced_search_clicked   |-> "advanced_search_clicked",
   on_component_manager_clicked |-> "component_manager_clicked"]

\* init_ui: the handler of each button created, in the order of the list
buttons_config ==
  << "on_advanced_search_clicked", "on_ai_bulk_clicked", "on_ai_table_clicked",
     "on_create_process_clicked", "on_view_processes_clicked",
     "on_table_creator_clicked", "on_tables_manager_clicked",
     "on_favorites_clicked", "on_stats_clicked", "on_component_manager_clicked",
     "on_category_filter_clicked", "on_dashboard_clicked",
     "on_pinned_panels_clicked" >>

\* the panel after __init__: its buttons, not shown yet; emitted is the
\* sequence of signals emitted so far and last what the latest handler did
NewPanel ==
  [visible |-> FALSE, buttons |-> buttons_config, emitted |-> <<>>, last |-> <<>>]

\* the signals the class declares
Signals ==
  {"stats_clicked", "tables_manager_clicked", "favorites_clicked",
   "dashboard_clicked", "browser_clicked", "category_filter_clicked",
   "table_creator_clicked", "create_process_clicked", "view_processes_clicked",
   "ai_bulk_clicked", "ai_table_clicked", "pinned_panels_clicked",
   "advanced_search_clicked", "component_manager_clicked"}

\* a handler that hides the panel before it emits
PanelHandlerHidesFirst(p, h) ==
  [p EXCEPT !.emitted = Append(@, Handlers[h]),
            !.visible = FALSE,
            !.last = << <<"hide", h>>, <<"emit", Handlers[h]>> >>]

\* a handler of the panel: emit the signal, then hide
PanelHandler(p, h) ==
  [p EXCEPT !.emitted = Append(@, Handlers[h]),
            !.visible = FALSE,
            !.last = << <<"emit", Handlers[h]>>, <<"hide", h>> >>]

\* a row of the bookmarks table
Bookmark(id, title, url) == [id |-> id, title |-> title, url |-> url]

BookmarkUrls == {"u", "v"}

\* db.get_bookmarks(): the rows stored, in their order
get_bookmarks(db) == db

\* db.delete_bookmark(id) when it reports success: the row is gone
delete_bookmark(db, id) == SelectSeq(db, LAMBDA row : row.id # id)

\* BookmarkItemWidget(bookmark_id, title, url)
BookmarkItemWidget(id, title, url) == <<"BookmarkItemWidget", id, title, url>>

\* the QLabel shown when there are no bookmarks
NoBookmarksLabel == <<"QLabel", "No hay marcadores guardados">>

\* the panel after __init__: an empty list layout; db holds the rows of the
\* database and next_id the id of the next row, before is the layout as it
\* was when the latest handler started, last names that handler and arg is
\* the bookmark id it was called with
NewBookmarksPanel(db) ==
  [db |-> db, next_id |-> Len(db) + 1, layout |-> <<>>, before |-> <<>>,
   last |-> "init", arg |-> 0, selected |-> None, visible |-> FALSE]

\* while self.bookmarks_layout.count(): takeAt(0)
RECURSIVE TakeAll(_)
TakeAll(layout) == IF layout = <<>> THEN layout ELSE TakeAll(Tail(layout))

\* the layout after one widget per row was added at its end
RECURSIVE AddWidgets(_, _)
AddWidgets(layout, rows) ==
  IF rows = <<>> THEN layout
  ELSE AddWidgets(
         Append(layout,
                BookmarkItemWidget(Head(rows).id, Head(rows).title, Head(rows).url)),
         Tail(rows))

\* refresh_bookmarks that does not empty the layout first
refresh_bookmarks_keeps_old(p) ==
  LET rows == get_bookmarks(p.db)
  IN  [p EXCEPT !.before = p.layout,
                !.layout = IF rows = <<>> THEN Append(p.layout, NoBookmarksLabel)
                           ELSE AddWidgets(p.layout, rows)]

refresh_bookmarks(p) ==
  LET cleared == TakeAll(p.layout)
      rows == get_bookmarks(p.db)
  IN  [p EXCEPT !.before = p.layout,
                !.layout = IF rows = <<>> THEN Append(cleared, NoBookmarksLabel)
                           ELSE AddWidgets(cleared, rows)]

\* _on_delete_bookmark that refreshes the list whatever the database reports
on_delete_bookmark_always_refreshes(p, id, ok) ==
  IF ok THEN refresh_bookmarks([p EXCEPT !.db = delete_bookmark(p.db, id)])
        ELSE refresh_bookmarks(p)

\* _on_delete_bookmark when db.delete_bookmark reports ok
on_delete_bookmark(p, id, ok) ==
  IF ok THEN refresh_bookmarks([p EXCEPT !.db = delete_bookmark(p.db, id)])
        ELSE [p EXCEPT !.before = p.layout]

----------------------------------------------------------------------------
(* ProjectCardWidget *)

\* the border colour of each element type
TYPE_COLORS ==
  [tag |-> "#00ff88", item |-> "#00ccff", category |-> "#ff8800",
   list |-> "#aa88ff", table |-> "#ff0088", process |-> "#88ff00",
   comment |-> "#00ccff", alert |-> "#ffaa00", note |-> "#00ff88",
   divider |-> "#555555"]

\* item_type values: the known types and one that TYPE_COLORS does not hold
CardTypes == DOMAIN TYPE_COLORS \cup {"other"}

DefaultCardType == "item"

\* TYPE_COLORS.get(item_type, '#555555')
BorderColor(item_type) ==
  IF item_type \in DOMAIN TYPE_COLORS THEN TYPE_COLORS[item_type] ELSE "#555555"

\* the style sheet init_ui gives card_frame: border, colour, hover rule
BaseCardStyle(item_type) == <<"2px", BorderColor(item_type), "hover">>

\* the style sheet show_copy_feedback gives card_frame
CopiedCardStyle == <<"3px", "#00ff88", "no_hover">>

\* the card after __init__; scheduled counts the expiries of copied_timer
\* that the event loop has scheduled
NewCard(item_type) ==
  [item_type |-> item_type, is_hovered |-> FALSE,
   show_copied_indicator |-> FALSE, scheduled |-> 0,
   style |-> BaseCardStyle(item_type), shadow |-> "rest",
   emitted |-> 0, presses |-> 0, last |-> "init"]

\* a timer created and started at every call, none of them stopped
CopiedTimerStartAnother(scheduled) == scheduled + 1

\* copied_timer.start(1000): the one single-shot timer is scheduled, again
\* from now when it was already
CopiedTimerStart(scheduled) == 1

show_copy_feedback(c) ==
  [c EXCEPT !.show_copied_indicator = TRUE,
            !.style = CopiedCardStyle,
            !.shadow = "copied",
            !.scheduled = CopiedTimerStart(@)]

hide_copied_indicator(c) ==
  [c EXCEPT !.show_copied_indicator = FALSE,
            !.style = BaseCardStyle(c.item_type),
            !.shadow = "rest"]

\* mousePressEvent with the given mouse button
CardMousePressEvent(c, mouse_button) ==
  IF mouse_button = "LeftButton"
    THEN show_copy_feedback([c EXCEPT !.emitted = @ + 1])
    ELSE c

----------------------------------------------------------------------------
(* init_ui: tooltip and frame style *)

\* the buttons with a timed style feedback besides execute_button
ActionButtons == {"open_url", "open_external", "open_explorer", "render"}

\* setToolTip: a content preview for non-sensitive items with content,
\* otherwise the label
ToolTip(it) ==
  IF ~it.is_sensitive /\ it.content # <<>> /\ it.content # NoneStr
    THEN <<"preview", Truncate(it.content), it.type>>
    ELSE <<"label", it.label>>

\* the style init_ui gives the frame, which reset_style sets again
BaseFrameStyle(it) ==
  IF it.is_sensitive THEN "sensitive"
  ELSE IF it.type = "PATH" /\ it.file_hash # None THEN "path_file"
  ELSE "normal"

\* no handler call recorded
NoOp ==
  [name |-> "none", tracker |-> <<>>, emitted |-> <<>>, escaped |-> "none",
   fail_at |-> "none", resolve |-> <<>>, opened |-> <<>>]

----------------------------------------------------------------------------
(* on_clicked and what it calls, on the fields w of one ItemButton         *)

\* the receiver of item_clicked copies the item's content to the clipboard
CopyToClipboard(it) == it.content

\* the calls of the usage tracker, as entries of a handler's log
TrackStart(it, token) ==
  [op |-> "start", id |-> it.id, token |-> token, success |-> FALSE, error |-> None]

TrackEnd(it, token, success, error_msg) ==
  [op |-> "end", id |-> it.id, token |-> token, success |-> success,
   error |-> error_msg]

\* show_copied_feedback without its QTimer.singleShot
show_copied_feedback_no_reset(w, it) ==
  [w EXCEPT !.is_copied = TRUE,
            !.frame_style = IF it.is_sensitive THEN "copied_orange" ELSE "copied_blue"]

show_copied_feedback(w, it) ==
  [w EXCEPT !.is_copied = TRUE,
            !.frame_style = IF it.is_sensitive THEN "copied_orange" ELSE "copied_blue",
            !.copied_resets = @ + 1]

reset_style(w, it) ==
  [w EXCEPT !.is_copied = FALSE, !.frame_style = BaseFrameStyle(it)]

\* start_clipboard_clear_timer that does not stop the previous timer
start_clipboard_clear_timer_no_stop(w) ==
  LET t == w.clip_timers_made + 1
  IN  [w EXCEPT !.clipboard_clear_timer = t,
                !.clip_timers_made = t,
                !.clip_running = @ \cup {t}]

start_clipboard_clear_timer(w) ==
  LET stopped == IF w.clipboard_clear_timer # NoTimer
                   THEN QTimerStop(w.clip_running, w.clipboard_clear_timer)
                   ELSE w.clip_running
      t == w.clip_timers_made + 1
  IN  [w EXCEPT !.clipboard_clear_timer = t,
                !.clip_timers_made = t,
                !.clip_running = QTimerStart(stopped, t)]

\* clear_clipboard: pyperclip.copy(""), whose exception is printed and dropped
clear_clipboard(clip, raises) == IF raises THEN clip ELSE <<>>

\* the statements of on_clicked that can raise
ClickFailPoints == {"none", "emit", "feedback"}

\* on_clicked: the new fields of the widget, the new clipboard and the log
on_clicked(it, w, clip, token, fail_at) ==
  LET tracked == it.type \notin {"URL", "PATH"}
      started == IF tracked THEN <<TrackStart(it, token)>> ELSE <<>>
      op0 == [NoOp EXCEPT !.name = "on_clicked", !.fail_at = fail_at,
                          !.tracker = started]
  IN  IF fail_at = "emit"
        THEN [w |-> w, clip |-> clip, op |-> [op0 EXCEPT !.escaped = "RuntimeError"]]
      ELSE
        LET op1 == [op0 EXCEPT !.emitted = <<"item_clicked">>]
            clip1 == CopyToClipboard(it)
        IN  IF fail_at = "feedback"
              THEN [w |-> [w EXCEPT !.is_copied = TRUE], clip |-> clip1,
                    op |-> [op1 EXCEPT !.escaped = "RuntimeError"]]
            ELSE
              LET w1 == show_copied_feedback(w, it)
                  op2 == IF tracked
                           THEN [op1 EXCEPT !.tracker =
                                   Append(@, TrackEnd(it, token, TRUE, None))]
                           ELSE op1
                  w2 == IF it.is_sensitive THEN start_clipboard_clear_timer(w1)
                        ELSE w1
              IN  [w |-> w2, clip |-> clip1, op |-> op2]

----------------------------------------------------------------------------
(* _resolve_path.  A path is the sequence of its components; an absolute   *)
(* path starts with the root "/".                                          *)

\* Path.is_absolute()
IsAbsolute(path) == path # <<>> /\ Head(path) = "/"

\* FileManager.get_absolute_path: the path below the configured base directory
get_absolute_path(path) == <<"/", "base">> \o path

\* the statement of the try block that raises, if any
ResolveFailPoints == {"none", "ConfigManager", "FileManager", "get_absolute_path"}

\* _resolve_path without its try / except
resolve_path_unprotected(content_path, fail_at) ==
  IF IsAbsolute(content_path)
    THEN [path |-> content_path, opened |-> 0, closed |-> 0, warnings |-> 0,
          raised |-> "none", failed |-> "none"]
    ELSE IF fail_at = "none"
      THEN [path |-> get_absolute_path(content_path), opened |-> 1, closed |-> 1,
            warnings |-> 0, raised |-> "none", failed |-> "none"]
      ELSE [path |-> content_path,
            opened |-> IF fail_at = "ConfigManager" THEN 0 ELSE 1,
            closed |-> 0, warnings |-> 0, raised |-> "Exception",
            failed |-> fail_at]

\* _resolve_path: the path returned, the ConfigManagers opened and closed, the
\* warnings logged and the exception raised to the caller
resolve_path(content_path, fail_at) ==
  IF IsAbsolute(content_path)
    THEN [path |-> content_path, opened |-> 0, closed |-> 0, warnings |-> 0,
          raised |-> "none", failed |-> "none"]
    ELSE IF fail_at = "none"
      THEN [path |-> get_absolute_path(content_path), opened |-> 1, closed |-> 1,
            warnings |-> 0, raised |-> "none", failed |-> "none"]
      ELSE [path |-> content_path,
            opened |-> IF fail_at = "ConfigManager" THEN 0 ELSE 1,
            closed |-> 0, warnings |-> 1, raised |-> "none", failed |-> fail_at]

----------------------------------------------------------------------------
(* The handlers of the open and render buttons                             *)

\* the url with "https://" in front unless it has a protocol
NormalizeUrl(url) ==
  IF url # <<>> /\ Head(url) \in {"http://", "https://"} THEN url
  ELSE <<"https://">> \o url

Systems == {"Windows", "Darwin", "Linux"}

\* what the file system says about the resolved path
FsViews ==
  {[exists |-> TRUE, is_file |-> TRUE, parent_exists |-> TRUE],
   [exists |-> TRUE, is_file |-> FALSE, parent_exists |-> TRUE],
   [exists |-> FALSE, is_file |-> FALSE, parent_exists |-> TRUE],
   [exists |-> FALSE, is_file |-> FALSE, parent_exists |-> FALSE]}

\* the command open_in_explorer runs: program and what it is pointed at
ExplorerCommand(system, fs) ==
  IF system = "Windows"
    THEN IF fs.exists THEN <<"explorer", "/select,", "path">>
         ELSE IF fs.parent_exists THEN <<"explorer", "parent">> ELSE <<>>
  ELSE IF system = "Darwin"
    THEN IF fs.exists THEN <<"open", "-R", "path">>
         ELSE IF fs.parent_exists THEN <<"open", "parent">> ELSE <<>>
  ELSE IF fs.exists
         THEN IF fs.is_file THEN <<"xdg-open", "parent">> ELSE <<"xdg-open", "path">>
         ELSE IF fs.parent_exists THEN <<"xdg-open", "parent">> ELSE <<>>

\* the green flash of an action button and its reset after 300 ms
ActionFeedback(w, which) ==
  [w EXCEPT !.action_style[which] = "green",
            !.action_pending = Append(@, <<which, w.action_style[which]>>)]

\* a handler whose tracking end is skipped when the action raised
TrackedFinallySkipped(it, w, op, token, success, error_msg) ==
  [w |-> w,
   op |-> IF error_msg # None THEN [op EXCEPT !.escaped = error_msg]
          ELSE [op EXCEPT !.tracker = Append(@, TrackEnd(it, token, success, error_msg))]]

\* finally: usage_tracker.track_execution_end(item.id, start_time, success, error_msg)
TrackedFinally(it, w, op, token, success, error_msg) ==
  [w |-> w,
   op |-> [op EXCEPT !.tracker = Append(@, TrackEnd(it, token, success, error_msg))]]

\* open_in_browser (which = "open_url", the url is emitted) and
\* open_in_system_browser (which = "open_external", webbrowser.open)
open_url(name, which, it, w, token, fail_at) ==
  LET op0 == [NoOp EXCEPT !.name = name, !.fail_at = fail_at,
                          !.tracker = <<TrackStart(it, token)>>]
  IN  IF it.content = NoneStr
        THEN TrackedFinally(it, w, op0, token, FALSE, "AttributeError")
      ELSE IF fail_at = "emit"
        THEN TrackedFinally(it, w, op0, token, FALSE, "RuntimeError")
      ELSE
        LET op1 == [op0 EXCEPT !.emitted = <<NormalizeUrl(it.content)>>]
        IN  IF fail_at = "feedback"
              THEN TrackedFinally(it, w, op1, token, TRUE, "RuntimeError")
              ELSE TrackedFinally(it, ActionFeedback(w, which), op1, token, TRUE, None)

\* open_in_explorer
open_in_explorer(it, w, token, fail_at, resolve_fail, system, fs) ==
  LET op0 == [NoOp EXCEPT !.name = "open_in_explorer", !.fail_at = fail_at,
                          !.tracker = <<TrackStart(it, token)>>]
      r == resolve_path(it.content, resolve_fail)
      op1 == [op0 EXCEPT !.resolve = <<r>>]
      command == ExplorerCommand(system, fs)
  IN  IF r.raised # "none"
        THEN TrackedFinally(it, w, op1, token, FALSE, r.raised)
      ELSE IF command # <<>> /\ fail_at = "emit"
        THEN TrackedFinally(it, w, op1, token, FALSE, "OSError")
      ELSE
        LET op2 == [op1 EXCEPT !.opened = command]
        IN  IF fail_at = "feedback"
              THEN TrackedFinally(it, w, op2, token, TRUE, "RuntimeError")
              ELSE TrackedFinally(it, ActionFeedback(w, "open_explorer"), op2,
                                  token, TRUE, None)

\* render_web_static: "feedback" is a failure of render_button.styleSheet(),
\* before original_style is assigned
render_web_static(it, w, token, fail_at) ==
  LET op0 == [NoOp EXCEPT !.name = "render_web_static", !.fail_at = fail_at,
                          !.tracker = <<TrackStart(it, token)>>]
      original_style == IF fail_at = "feedback" THEN UNBOUND
                        ELSE w.action_style["render"]
      failed == [w EXCEPT !.action_style["render"] = "error_red",
                          !.action_pending = Append(@, <<"render", original_style>>)]
  IN  IF fail_at # "none"
        THEN TrackedFinally(it, failed, op0, token, FALSE, "RuntimeError")
        ELSE TrackedFinally(it,
               [w EXCEPT !.action_style["render"] = "cyan",
                         !.action_pending = Append(@, <<"render", original_style>>)],
               [op0 EXCEPT !.emitted = <<"web_static_render_requested">>],
               token, TRUE, None)

----------------------------------------------------------------------------
(* ItemButton.__init__ *)

NewButton(it) ==
  [is_copied      |-> FALSE,
   is_revealed    |-> FALSE,
   reveal_timer   |-> NoTimer,
   label_text     |-> get_display_text(it, FALSE),
   reveal_text    |-> "reveal",
   timers_made    |-> 0,
   running        |-> {},
   exec_style     |-> "base",
   exec_text      |-> "bolt",
   pending        |-> <<>>,
   clipboard_clear_timer |-> NoTimer,
   clip_timers_made |-> 0,
   clip_running   |-> {},      \* the running clipboard-clear timers
   tooltip        |-> ToolTip(it),
   frame_style    |-> BaseFrameStyle(it),
   copied_resets  |-> 0,       \* scheduled reset_style calls (500 ms)
   action_style   |-> [a \in ActionButtons |-> "base"],
   action_pending |-> <<>>]    \* scheduled style resets of the action buttons

NewHist ==
  [toggles  |-> 0,     \* toggle_reveal calls made by clicks on reveal_button
   timeouts |-> 0,     \* expiries of reveal timers
   last     |-> "init",
   execs    |-> 0,     \* execute_command calls
   callback_error |-> FALSE,  \* a scheduled style reset raised
   call     |-> NoCall,       \* what the last execute_command call did
   clicks   |-> 0,            \* calls of on_clicked and of the open / render handlers
   clip_fires |-> 0,          \* expiries of clipboard-clear timers
   op       |-> NoOp,         \* what the last of those handlers did
   feedback_failed |-> FALSE] \* a show_copied_feedback call raised

----------------------------------------------------------------------------
(* Actions of the reveal state machine *)

\* attributes kept on the class: what a handler stores for one widget shows
\* in every widget
StoreAttrsOnClass(b, w) ==
  [x \in Buttons |->
     IF x = b THEN w
     ELSE [button[x] EXCEPT !.is_revealed = w.is_revealed,
                            !.reveal_timer = w.reveal_timer,
                            !.is_copied = w.is_copied,
                            !.clipboard_clear_timer = w.clipboard_clear_timer]]

\* the attributes are set on self in __init__: a handler of widget b stores
\* its fields w in b alone
StoreAttrs(b, w) == [button EXCEPT ![b] = w]

\* a click on reveal_button (it exists for sensitive items only)
ToggleReveal(b) ==
  /\ item[b].is_sensitive
  /\ hist[b].toggles < MaxToggles
  /\ button[b].is_revealed \/ button[b].timers_made < MaxTimers
  /\ button' = StoreAttrs(b, toggle_reveal(button[b], item[b]))
  /\ hist' = [hist EXCEPT ![b].toggles = @ + 1, ![b].last = "toggle_reveal"]
  /\ UNCHANGED <<item, clock, clipboard, panel, bookmarks, card>>

\* a timer that fires although it was stopped or has fired
DueAnyTimerMade(w) == 1..w.timers_made

\* the reveal timers of a widget whose timeout signal can be emitted:
\* the scheduled ones
Due(w) == w.running

\* a running reveal timer of b expires: single shot, its timeout signal
\* calls auto_hide
RevealTimeout(b) ==
  \E t \in Due(button[b]) :
    /\ button' = StoreAttrs(b,
                    auto_hide([button[b] EXCEPT !.running = @ \ {t}], item[b]))
    /\ hist' = [hist EXCEPT ![b].timeouts = @ + 1, ![b].last = "timeout"]
    /\ UNCHANGED <<item, clock, clipboard, panel, bookmarks, card>>

----------------------------------------------------------------------------
(* The reveal specification: two widgets showing items of any sensitivity  *)
(* and display options.                                                    *)

\* get_display_text slices the content of a sensitive item: it is a string,
\* here a non-empty one without blanks
RevealContents == {s \in SeqsUpTo(MaxLen) : s # <<>> /\ \A i \in 1..Len(s) : s[i] = "x"}

RevealItems(b) ==
  [id : {ItemId(b)}, type : {"TEXT"}, label : {<<"L">>},
   content : RevealContents, is_sensitive : BOOLEAN,
   show_labels : BOOLEAN, show_content : BOOLEAN, working_dir : {None},
   file_hash : {None}]

InitReveal ==
  /\ item \in {f \in [Buttons -> UNION {RevealItems(b) : b \in Buttons}] :
                 \A b \in Buttons : f[b] \in RevealItems(b)}
  /\ button = [b \in Buttons |-> NewButton(item[b])]
  /\ hist = [b \in Buttons |-> NewHist]
  /\ clock = 0
  /\ clipboard = <<>>
  /\ panel = NewPanel
  /\ bookmarks = NewBookmarksPanel(<<>>)
  /\ card = NewCard(DefaultCardType)

NextReveal ==
  \/ \E b \in Buttons : ToggleReveal(b)
  \/ \E b \in Buttons : RevealTimeout(b)

SpecReveal == InitReveal /\ [][NextReveal]_vars

\* the event loop keeps running and fires due timers
SpecRevealFair == SpecReveal /\ \A b \in Buttons : WF_vars(RevealTimeout(b))

----------------------------------------------------------------------------
(* Actions of command execution *)

\* a call of execute_command (execute_button.clicked for CODE items)
ExecuteCommand(b) ==
  /\ hist[b].execs < MaxExecs
  /\ Len(button[b].pending) < MaxPending
  /\ IF item[b].type # "CODE"
       THEN /\ hist' = [hist EXCEPT ![b].execs = @ + 1,
                                    ![b].last = "execute_command",
                                    ![b].call = NoCall]
            /\ UNCHANGED <<item, button, clock, clipboard, panel, bookmarks, card>>
       ELSE \E env \in Envs :
              LET token == track_execution_start(clock)
                  f == execute_command(item[b], button[b], token, env)
              IN  /\ clock' = token
                  /\ button' = [button EXCEPT ![b].exec_style = f.style,
                                              ![b].exec_text = f.text,
                                              ![b].pending = f.pending]
                  /\ hist' = [hist EXCEPT
                       ![b].execs = @ + 1,
                       ![b].last = "execute_command",
                       ![b].call = [tracker |-> f.tracker, dialogs |-> f.dialogs,
                                    run_calls |-> f.run_calls,
                                    run_args |-> f.run_args,
                                    warnings |-> f.warnings,
                                    escaped |-> f.exc,
                                    run |-> IF f.run_calls = 0 THEN NoRun
                                            ELSE env.run]]
                  /\ UNCHANGED <<item, clipboard, panel, bookmarks, card>>

\* the oldest scheduled style reset of execute_button fires: the lambda
\* reads original_style, which raises NameError when it was never assigned
StyleResetFires(b) ==
  /\ button[b].pending # <<>>
  /\ LET original_style == Head(button[b].pending)
     IN  /\ button' = [button EXCEPT
                ![b].pending = Tail(@),
                ![b].exec_style = IF original_style = UNBOUND THEN @
                                  ELSE original_style]
         /\ hist' = [hist EXCEPT
                ![b].last = "style_reset",
                ![b].callback_error = @ \/ original_style = UNBOUND]
  /\ UNCHANGED <<item, clock, clipboard, panel, bookmarks, card>>

----------------------------------------------------------------------------
(* The execution specification: widget A shows any item, widget B a TEXT   *)
(* item.                                                                   *)

ExecContents == SeqsUpTo(MaxLen) \cup {NoneStr}

ExecItems ==
  [id : {ItemId("A")}, type : {"CODE", "TEXT"}, label : {<<"L">>},
   content : ExecContents, is_sensitive : {FALSE},
   show_labels : {TRUE}, show_content : {FALSE},
   working_dir : {None, "okdir", "nodir"}, file_hash : {None}]

InitExec ==
  /\ item \in {f \in [Buttons -> ExecItems \cup RevealItems("B")] :
                 /\ f["A"] \in ExecItems
                 /\ f["B"] = [id |-> ItemId("B"), type |-> "TEXT", label |-> <<"L">>,
                             content |-> <<"x">>, is_sensitive |-> FALSE,
                             show_labels |-> TRUE, show_content |-> FALSE,
                             working_dir |-> None, file_hash |-> None]}
  /\ button = [b \in Buttons |-> NewButton(item[b])]
  /\ hist = [b \in Buttons |-> NewHist]
  /\ clock = 0
  /\ clipboard = <<>>
  /\ panel = NewPanel
  /\ bookmarks = NewBookmarksPanel(<<>>)
  /\ card = NewCard(DefaultCardType)

NextExec ==
  \/ \E b \in Buttons : ExecuteCommand(b)
  \/ \E b \in Buttons : StyleResetFires(b)

SpecExec == InitExec /\ [][NextExec]_vars

----------------------------------------------------------------------------
(* Actions of a click on the widget *)

\* mousePressEvent with the left button: on_clicked
OnClicked(b) ==
  /\ hist[b].clicks < MaxClicks
  /\ \E fail_at \in ClickFailPoints :
       LET tracked == item[b].type \notin {"URL", "PATH"}
           token == IF tracked THEN track_execution_start(clock) ELSE clock
           r == on_clicked(item[b], button[b], clipboard, token, fail_at)
       IN  /\ clock' = token
           /\ button' = StoreAttrs(b, r.w)
           /\ clipboard' = r.clip
           /\ hist' = [hist EXCEPT ![b].clicks = @ + 1,
                                   ![b].last = "on_clicked",
                                   ![b].op = r.op,
                                   ![b].feedback_failed =
                                      @ \/ r.op.fail_at = "feedback"]
  /\ UNCHANGED <<item, panel, bookmarks, card>>

\* a QTimer.singleShot(500, self.reset_style) fires
ResetStyleFires(b) ==
  /\ button[b].copied_resets > 0
  /\ button' = StoreAttrs(b,
                  reset_style([button[b] EXCEPT !.copied_resets = @ - 1], item[b]))
  /\ hist' = [hist EXCEPT ![b].last = "reset_style"]
  /\ UNCHANGED <<item, clock, clipboard, panel, bookmarks, card>>

\* a running clipboard-clear timer of b expires: clear_clipboard
ClipboardTimeout(b) ==
  \E t \in button[b].clip_running, raises \in BOOLEAN :
    /\ button' = [button EXCEPT ![b].clip_running = @ \ {t}]
    /\ clipboard' = clear_clipboard(clipboard, raises)
    /\ hist' = [hist EXCEPT ![b].clip_fires = @ + 1,
                            ![b].last = IF raises THEN "clear_failed" ELSE "cleared"]
    /\ UNCHANGED <<item, clock, panel, bookmarks, card>>

\* a click on one of the open / render buttons of the item's type
OpenClicked(b) ==
  /\ hist[b].clicks < MaxClicks
  /\ Len(button[b].action_pending) < MaxPending
  /\ item[b].type \in {"URL", "PATH", "WEB_STATIC"}
  /\ LET token == track_execution_start(clock)
         w == button[b]
         it == item[b]
     IN  \E r \in
           IF it.type = "URL"
             THEN {open_url("open_in_browser", "open_url", it, w, token, f) :
                     f \in ClickFailPoints}
                  \cup {open_url("open_in_system_browser", "open_external", it, w,
                                 token, f) : f \in ClickFailPoints}
           ELSE IF it.type = "PATH"
             THEN {open_in_explorer(it, w, token, f, rf, sys, fs) :
                     f \in ClickFailPoints, rf \in ResolveFailPoints,
                     sys \in Systems, fs \in FsViews}
           ELSE {render_web_static(it, w, token, f) : f \in ClickFailPoints} :
           /\ button' = StoreAttrs(b, r.w)
           /\ hist' = [hist EXCEPT ![b].clicks = @ + 1,
                                   ![b].last = r.op.name,
                                   ![b].op = r.op]
           /\ clock' = token
  /\ UNCHANGED <<item, clipboard, panel, bookmarks, card>>

\* the oldest scheduled style reset of an action button fires
ActionResetFires(b) ==
  /\ button[b].action_pending # <<>>
  /\ LET which == Head(button[b].action_pending)[1]
         original_style == Head(button[b].action_pending)[2]
     IN  /\ button' = [button EXCEPT
                ![b].action_pending = Tail(@),
                ![b].action_style[which] =
                   IF original_style = UNBOUND THEN @ ELSE original_style]
         /\ hist' = [hist EXCEPT
                ![b].last = "action_reset",
                ![b].callback_error = @ \/ original_style = UNBOUND]
  /\ UNCHANGED <<item, clock, clipboard, panel, bookmarks, card>>

----------------------------------------------------------------------------
(* The click specification: widget A shows any item and is clicked, widget *)
(* B shows a sensitive TEXT item.                                          *)

UrlContents == {<<"https://", "x">>, <<"www.", "x">>, NoneStr}

PathContents == {<<"/", "x">>, <<"x">>}

ClickItems ==
  UNION {[id : {ItemId("A")}, type : {ty}, label : {<<"L">>},
          content : IF ty = "URL" THEN UrlContents
                    ELSE IF ty = "PATH" THEN PathContents
                    ELSE {<<"x">>},
          is_sensitive : BOOLEAN,
          show_labels : {TRUE}, show_content : {TRUE},
          working_dir : {None},
          file_hash : IF ty = "PATH" THEN {None, "hash"} ELSE {None}] :
         ty \in {"TEXT", "URL", "PATH", "WEB_STATIC"}}

InitClick ==
  /\ item \in {f \in [Buttons -> ClickItems \cup RevealItems("B")] :
                 /\ f["A"] \in ClickItems
                 /\ f["B"] = [id |-> ItemId("B"), type |-> "TEXT", label |-> <<"L">>,
                             content |-> <<"x", "x">>, is_sensitive |-> TRUE,
                             show_labels |-> TRUE, show_content |-> TRUE,
                             working_dir |-> None, file_hash |-> None]}
  /\ button = [b \in Buttons |-> NewButton(item[b])]
  /\ hist = [b \in Buttons |-> NewHist]
  /\ clock = 0
  /\ clipboard = <<>>
  /\ panel = NewPanel
  /\ bookmarks = NewBookmarksPanel(<<>>)
  /\ card = NewCard(DefaultCardType)

\* the user works with widget A; widget B is shown and left alone
NextClick ==
  \/ OnClicked("A")
  \/ ResetStyleFires("A")
  \/ ClipboardTimeout("A")
  \/ OpenClicked("A")
  \/ ActionResetFires("A")

SpecClick == InitClick /\ [][NextClick]_vars

\* the event loop keeps running and fires due timers
SpecClickFair == SpecClick /\ WF_vars(ClipboardTimeout("A"))

----------------------------------------------------------------------------
(* The two-widget specification: both widgets show a sensitive CODE item   *)
(* and the user works with either of them, MaxFrameOps clicks in all.      *)

FrameItem(b) ==
  [id |-> ItemId(b), type |-> "CODE", label |-> <<"L">>,
   content |-> IF b = "A" THEN <<"x">> ELSE <<"x", "x">>,
   is_sensitive |-> TRUE, show_labels |-> TRUE, show_content |-> TRUE,
   working_dir |-> None, file_hash |-> None]

\* the clicks made so far on the widgets and their buttons
FrameOps ==
  LET n(b) == hist[b].toggles + hist[b].clicks + hist[b].execs
  IN  n("A") + n("B")

InitFrame ==
  /\ item = [b \in Buttons |-> FrameItem(b)]
  /\ button = [b \in Buttons |-> NewButton(item[b])]
  /\ hist = [b \in Buttons |-> NewHist]
  /\ clock = 0
  /\ clipboard = <<>>
  /\ panel = NewPanel
  /\ bookmarks = NewBookmarksPanel(<<>>)
  /\ card = NewCard(DefaultCardType)

\* a click of the user on widget b: its reveal button, the widget itself or
\* its execute button
FrameToggleReveal(b) == FrameOps < MaxFrameOps /\ ToggleReveal(b)

FrameOnClicked(b) == FrameOps < MaxFrameOps /\ OnClicked(b)

FrameExecuteCommand(b) == FrameOps < MaxFrameOps /\ ExecuteCommand(b)

NextFrame ==
  \/ \E b \in Buttons : FrameToggleReveal(b)
  \/ \E b \in Buttons : FrameOnClicked(b)
  \/ \E b \in Buttons : FrameExecuteCommand(b)
  \/ \E b \in Buttons : RevealTimeout(b)
  \/ \E b \in Buttons : ResetStyleFires(b)
  \/ \E b \in Buttons : ClipboardTimeout(b)
  \/ \E b \in Buttons : StyleResetFires(b)

SpecFrame == InitFrame /\ [][NextFrame]_vars

----------------------------------------------------------------------------
(* The quick access panel *)

\* the owner of the panel shows it
ShowPanel ==
  /\ ~panel.visible
  /\ panel' = [panel EXCEPT !.visible = TRUE, !.last = << <<"show", "owner">> >>]
  /\ UNCHANGED <<item, button, hist, clock, clipboard, bookmarks, card>>

\* the user clicks the i-th action button of the shown panel
ActionButtonClicked(i) ==
  /\ panel.visible
  /\ Len(panel.emitted) < MaxPanelClicks
  /\ panel' = PanelHandler(panel, panel.buttons[i])
  /\ UNCHANGED <<item, button, hist, clock, clipboard, bookmarks, card>>

\* close_btn.clicked is connected to hide
CloseClicked ==
  /\ panel.visible
  /\ panel' = [panel EXCEPT !.visible = FALSE, !.last = << <<"hide", "close_btn">> >>]
  /\ UNCHANGED <<item, button, hist, clock, clipboard, bookmarks, card>>

InitPanel ==
  /\ item = [b \in Buttons |-> FrameItem(b)]
  /\ button = [b \in Buttons |-> NewButton(item[b])]
  /\ hist = [b \in Buttons |-> NewHist]
  /\ clock = 0
  /\ clipboard = <<>>
  /\ panel = NewPanel
  /\ bookmarks = NewBookmarksPanel(<<>>)
  /\ card = NewCard(DefaultCardType)

NextPanel ==
  \/ ShowPanel
  \/ \E i \in 1..Len(buttons_config) : ActionButtonClicked(i)
  \/ CloseClicked

SpecPanel == InitPanel /\ [][NextPanel]_vars

----------------------------------------------------------------------------
(* The bookmarks panel *)

\* the browser saves a bookmark in the database; the panel is not told
AddBookmark ==
  /\ bookmarks.next_id <= MaxBookmarks
  /\ \E url \in BookmarkUrls :
       bookmarks' = [bookmarks EXCEPT
                       !.db = Append(@, Bookmark(bookmarks.next_id, <<"t">>, url)),
                       !.next_id = @ + 1,
                       !.last = "add"]
  /\ UNCHANGED <<item, button, hist, clock, clipboard, panel, card>>

\* the owner of the panel calls refresh_bookmarks
RefreshBookmarks ==
  /\ bookmarks' = [refresh_bookmarks(bookmarks) EXCEPT !.last = "refresh"]
  /\ UNCHANGED <<item, button, hist, clock, clipboard, panel, card>>

\* delete_clicked of the i-th widget shown: _on_delete_bookmark; the database
\* reports success only for a row it holds
DeleteBookmark(i) ==
  /\ bookmarks.visible
  /\ i <= Len(bookmarks.layout)
  /\ bookmarks.layout[i][1] = "BookmarkItemWidget"
  /\ LET id == bookmarks.layout[i][2]
     IN  \E ok \in IF \E j \in 1..Len(bookmarks.db) : bookmarks.db[j].id = id
                     THEN BOOLEAN ELSE {FALSE} :
           bookmarks' = [on_delete_bookmark(bookmarks, id, ok) EXCEPT
                           !.last = IF ok THEN "deleted" ELSE "delete_failed",
                           !.arg = id]
  /\ UNCHANGED <<item, button, hist, clock, clipboard, panel, card>>

\* bookmark_clicked of the i-th widget shown: _on_bookmark_clicked emits
\* bookmark_selected with the url and closes the panel
BookmarkClicked(i) ==
  /\ bookmarks.visible
  /\ i <= Len(bookmarks.layout)
  /\ bookmarks.layout[i][1] = "BookmarkItemWidget"
  /\ bookmarks' = [bookmarks EXCEPT !.selected = bookmarks.layout[i][4],
                                    !.visible = FALSE,
                                    !.before = bookmarks.layout,
                                    !.last = "selected"]
  /\ UNCHANGED <<item, button, hist, clock, clipboard, panel, card>>

\* the owner of the panel shows it
ShowBookmarksPanel ==
  /\ ~bookmarks.visible
  /\ bookmarks' = [bookmarks EXCEPT !.visible = TRUE, !.before = bookmarks.layout,
                                    !.last = "show"]
  /\ UNCHANGED <<item, button, hist, clock, clipboard, panel, card>>

\* close_btn.clicked is connected to close
CloseBookmarksPanel ==
  /\ bookmarks.visible
  /\ bookmarks' = [bookmarks EXCEPT !.visible = FALSE, !.before = bookmarks.layout,
                                    !.last = "close"]
  /\ UNCHANGED <<item, button, hist, clock, clipboard, panel, card>>

InitBookmarks ==
  /\ item = [b \in Buttons |-> FrameItem(b)]
  /\ button = [b \in Buttons |-> NewButton(item[b])]
  /\ hist = [b \in Buttons |-> NewHist]
  /\ clock = 0
  /\ clipboard = <<>>
  /\ panel = NewPanel
  /\ bookmarks = NewBookmarksPanel(<<>>)
  /\ card = NewCard(DefaultCardType)

NextBookmarks ==
  \/ AddBookmark
  \/ RefreshBookmarks
  \/ \E i \in 1..MaxBookmarks : DeleteBookmark(i)
  \/ \E i \in 1..MaxBookmarks : BookmarkClicked(i)
  \/ ShowBookmarksPanel
  \/ CloseBookmarksPanel

SpecBookmarks == InitBookmarks /\ [][NextBookmarks]_vars

----------------------------------------------------------------------------
(* The project card *)

EnterEvent ==
  /\ ~card.is_hovered
  /\ card' = [card EXCEPT !.is_hovered = TRUE, !.shadow = "hover", !.last = "enter"]
  /\ UNCHANGED <<item, button, hist, clock, clipboard, panel, bookmarks>>

LeaveEvent ==
  /\ card.is_hovered
  /\ card' = [card EXCEPT !.is_hovered = FALSE, !.shadow = "rest", !.last = "leave"]
  /\ UNCHANGED <<item, button, hist, clock, clipboard, panel, bookmarks>>

\* the user presses a mouse button on the card
MousePress ==
  /\ card.presses < MaxPresses
  /\ \E mouse_button \in {"LeftButton", "RightButton"} :
       card' = [CardMousePressEvent(card, mouse_button) EXCEPT
                  !.presses = @ + 1, !.last = mouse_button]
  /\ UNCHANGED <<item, button, hist, clock, clipboard, panel, bookmarks>>

\* a scheduled expiry of copied_timer: timeout calls hide_copied_indicator
CopiedTimeout ==
  /\ card.scheduled > 0
  /\ card' = [hide_copied_indicator([card EXCEPT !.scheduled = @ - 1]) EXCEPT
                !.last = "timeout"]
  /\ UNCHANGED <<item, button, hist, clock, clipboard, panel, bookmarks>>

InitCard ==
  /\ item = [b \in Buttons |-> FrameItem(b)]
  /\ button = [b \in Buttons |-> NewButton(item[b])]
  /\ hist = [b \in Buttons |-> NewHist]
  /\ clock = 0
  /\ clipboard = <<>>
  /\ panel = NewPanel
  /\ bookmarks = NewBookmarksPanel(<<>>)
  /\ \E t \in CardTypes : card = NewCard(t)

NextCard ==
  \/ EnterEvent
  \/ LeaveEvent
  \/ MousePress
  \/ CopiedTimeout

SpecCard == InitCard /\ [][NextCard]_vars

----------------------------------------------------------------------------
(* Properties of the reveal state machine *)

\* C1: whenever the content of a widget is revealed, it is hidden again
\* later, even if the user never clicks again, as long as the event loop
\* fires the due timers (checked under SpecRevealFair).
C1_RevealedEventuallyHidden ==
  \A b \in Buttons : button[b].is_revealed ~> ~button[b].is_revealed

\* revealed by one click and hidden by the timer alone
C1_Witness ==
  \E b \in Buttons : /\ hist[b].toggles = 1
                     /\ hist[b].last = "timeout"
                     /\ ~button[b].is_revealed

\* C2: between handlers, the widget's reveal timer is pending (scheduled and
\* not yet fired or stopped) if and only if is_revealed is true.
C2_TimerPendingIffRevealed ==
  \A b \in Buttons :
    (button[b].reveal_timer # NoTimer /\ button[b].reveal_timer \in button[b].running)
      <=> button[b].is_revealed

\* hidden again by a click: the widget still references its timer, stopped
C2_Witness ==
  \E b \in Buttons : /\ ~button[b].is_revealed
                     /\ button[b].reveal_timer # NoTimer
                     /\ hist[b].last = "toggle_reveal"

\* C3: a widget never has more than one running auto-hide timer.
C3_AtMostOneTimer ==
  \A b \in Buttons : Cardinality(button[b].running) <= 1

\* revealed for the second time: a second timer object, one running timer
C3_Witness ==
  \E b \in Buttons : /\ button[b].is_revealed
                     /\ button[b].timers_made >= 2
                     /\ Cardinality(button[b].running) = 1

\* C4: as long as no auto-hide timer has expired, is_revealed after N
\* toggle_reveal calls is true exactly when N is odd.
C4_ToggleParity ==
  \A b \in Buttons :
    hist[b].timeouts = 0 => (button[b].is_revealed <=> hist[b].toggles % 2 = 1)

C4_Witness ==
  \E b \in Buttons : /\ hist[b].timeouts = 0
                     /\ hist[b].toggles >= 3
                     /\ button[b].is_revealed

\* C5: while the content is hidden, no timer of the widget fires and nothing
\* but the next toggle_reveal changes is_revealed or the label text; and
\* auto_hide called on a hidden widget changes none of its fields.
C5_NoSpuriousTransition ==
  /\ [][\A b \in Buttons :
          (~button[b].is_revealed /\ hist'[b].toggles = hist[b].toggles)
            => /\ ~button'[b].is_revealed
               /\ button'[b].label_text = button[b].label_text
               /\ hist'[b].timeouts = hist[b].timeouts]_vars
  /\ [](\A b \in Buttons :
          ~button[b].is_revealed => auto_hide(button[b], item[b]) = button[b])

\* revealed, then hidden by a second click before the timer fired
C5_Witness ==
  \E b \in Buttons : /\ hist[b].toggles = 2
                     /\ hist[b].timeouts = 0
                     /\ ~button[b].is_revealed
                     /\ button[b].timers_made = 1

----------------------------------------------------------------------------
(* Properties of execute_command *)

\* widget b has run the body of execute_command: hist[b].call is that call
Ran(b) == item[b].type = "CODE" /\ hist[b].execs > 0

\* C6: every execute_command call on a CODE item calls track_execution_start
\* once and then track_execution_end once, with the item's id and the token
\* the start returned, whatever the outcome.
C6_TrackerPaired ==
  \A b \in Buttons :
    Ran(b) =>
      LET t == hist[b].call.tracker
      IN  /\ Len(t) = 2
          /\ t[1].op = "start" /\ t[2].op = "end"
          /\ t[1].id = item[b].id /\ t[2].id = item[b].id
          /\ t[2].token = t[1].token

\* an exception left the handler, and the end was still recorded
C6_Witness ==
  \E b \in Buttons : /\ Ran(b)
                     /\ hist[b].call.escaped # "none"
                     /\ Len(hist[b].call.tracker) = 2

\* C7: execute_command on a CODE item whose content is empty after trimming
\* never calls subprocess.run.
C7_EmptyCommandNotLaunched ==
  \A b \in Buttons :
    (Ran(b) /\ item[b].content # NoneStr /\ Strip(item[b].content) = <<>>)
      => hist[b].call.run_calls = 0

\* C8: when subprocess.run times out (after 30 s), the handler shows one
\* result with return code -1, empty output and the timeout message, ends
\* the tracking with success = False and that message, restores the button
\* text and returns normally unless the dialog itself raises.
C8_TimeoutReported ==
  \A b \in Buttons :
    (Ran(b) /\ hist[b].call.run.kind = "timeout") =>
      LET c == hist[b].call
      IN  /\ c.run_args[3] = TIMEOUT_SECONDS
          /\ Len(c.dialogs) = 1
          /\ c.dialogs[1].command = Strip(item[b].content)
          /\ c.dialogs[1].output = ""
          /\ c.dialogs[1].error = TimeoutMsg
          /\ c.dialogs[1].return_code = -1
          /\ c.tracker[2].success = FALSE
          /\ c.tracker[2].error = TimeoutMsg
          /\ button[b].exec_text = "bolt"
          /\ (~c.dialogs[1].raised => c.escaped = "none")

C8_Witness ==
  \E b \in Buttons : /\ Ran(b)
                     /\ hist[b].call.run.kind = "timeout"
                     /\ hist[b].call.escaped = "none"
                     /\ hist[b].last = "execute_command"

\* C9: no scheduled callback of execute_command raises, and no exception
\* leaves the handler (failures of the result dialog itself set aside).
C9_NoFailureEscapes ==
  \A b \in Buttons :
    /\ ~hist[b].callback_error
    /\ (Ran(b) /\ hist[b].call.escaped # "none")
         => \E i \in 1..Len(hist[b].call.dialogs) : hist[b].call.dialogs[i].raised

\* C10: track_execution_end gets success = True exactly when the process
\* completed with return code 0; a non-zero return code, a timeout or a
\* launch failure ends with success = False and a non-empty error, shown as
\* a failed result, and the handler returns normally unless the dialog raises.
C10_SuccessIffExitZero ==
  \A b \in Buttons :
    Ran(b) =>
      LET c == hist[b].call
          end == c.tracker[2]
          exitZero == c.run.kind = "exit" /\ c.run.returncode = 0
      IN  /\ end.success <=> exitZero
          /\ ~end.success => end.error \notin {None, ""}
          /\ (c.run.kind # "none" /\ ~exitZero) =>
                /\ Len(c.dialogs) >= 1
                /\ c.dialogs[1].return_code # 0
                /\ (~c.dialogs[1].raised => c.escaped = "none")

\* a non-zero return code without stderr text
C10_Witness ==
  \E b \in Buttons : /\ Ran(b)
                     /\ hist[b].call.run.kind = "exit"
                     /\ hist[b].call.run.returncode = 1
                     /\ hist[b].call.run.stderr = ""
                     /\ hist[b].call.tracker[2].error = UnknownErrorMsg

\* C11: with a working directory that is set but is no directory, the
\* command is still run, with cwd unset and one warning logged; the success
\* reported follows the return code alone and nothing is raised unless the
\* result dialog raises.
C11_InvalidWorkingDirIgnored ==
  \A b \in Buttons :
    (/\ Ran(b)
     /\ item[b].content # NoneStr
     /\ item[b].working_dir \notin {None, ""}
     /\ ~IsDir(item[b].working_dir)) =>
      LET c == hist[b].call
      IN  /\ c.run_calls = 1
          /\ c.run_args[1] = Strip(item[b].content)
          /\ c.run_args[2] = None
          /\ c.warnings = 1
          /\ c.run.kind = "exit" =>
               /\ c.tracker[2].success <=> c.run.returncode = 0
               /\ c.dialogs[1].return_code = c.run.returncode
               /\ (~c.dialogs[1].raised => c.escaped = "none")

\* a command that succeeded although its working directory does not exist
C11_Witness ==
  \E b \in Buttons : /\ Ran(b)
                     /\ item[b].working_dir = "nodir"
                     /\ hist[b].call.run.kind = "exit"
                     /\ hist[b].call.run.returncode = 0
                     /\ hist[b].call.tracker[2].success
                     /\ hist[b].call.escaped = "none"

\* C12: every execute_command call on a CODE item shows exactly one
\* CommandOutputDialog.
C12_ExactlyOneDialog ==
  \A b \in Buttons : Ran(b) => Len(hist[b].call.dialogs) = 1

----------------------------------------------------------------------------
(* Properties of the click, open and render handlers *)

\* C13: every handler that calls track_execution_start calls
\* track_execution_end exactly once afterwards, before it returns, with the
\* same item id and the token of the start, also when the action in between
\* fails; the ends never outnumber the starts.
C13_StartEndPaired ==
  \A b \in Buttons :
    LET t == hist[b].op.tracker
    IN  t # <<>> =>
          /\ Len(t) = 2
          /\ t[1].op = "start" /\ t[2].op = "end"
          /\ t[2].id = t[1].id /\ t[1].id = item[b].id
          /\ t[2].token = t[1].token

----------------------------------------------------------------------------
(* Further properties of the reveal controller *)

\* C15: while a sensitive item is hidden, at construction and after every
\* manual or automatic hide, the label text and the tooltip are what they
\* would be for any other content; the content is part of the label exactly
\* while the item is revealed and shows its content, the label being set
\* again at every change of is_revealed.
C15_HiddenContentNotShown ==
  \A b \in Buttons :
    item[b].is_sensitive =>
      /\ ~button[b].is_revealed =>
           /\ \A c \in RevealContents :
                LET other == [item[b] EXCEPT !.content = c]
                IN  /\ button[b].label_text = get_display_text(other, FALSE)
                    /\ button[b].tooltip = ToolTip(other)
           /\ \A i \in 1..Len(button[b].label_text) :
                button[b].label_text[i][2] # Truncate(item[b].content)
      /\ (\E i \in 1..Len(button[b].label_text) :
            button[b].label_text[i] = <<"unlocked", Truncate(item[b].content)>>)
           <=> (button[b].is_revealed /\ item[b].show_content)

\* hidden by the timer, revealed again and hidden by a click
C15_Witness ==
  \E b \in Buttons : /\ item[b].is_sensitive /\ item[b].show_content
                     /\ ~button[b].is_revealed
                     /\ hist[b].timeouts = 1 /\ hist[b].toggles = 3
                     /\ hist[b].last = "toggle_reveal"

\* C17: a timer of an earlier reveal never fires during a later one: only
\* the timer started at the latest reveal is scheduled, a timer fires only
\* while the content is revealed and is then that timer, its firing hides
\* the content, and the timers that fired never outnumber the reveals.
C17_OnlyLatestTimerHides ==
  /\ [](\A b \in Buttons :
          /\ button[b].running \subseteq {button[b].timers_made}
          /\ button[b].is_revealed => button[b].reveal_timer = button[b].timers_made
          /\ hist[b].timeouts <= button[b].timers_made)
  /\ [][\A b \in Buttons :
          hist'[b].timeouts # hist[b].timeouts =>
            /\ button[b].is_revealed
            /\ button[b].running = {button[b].timers_made}
            /\ ~button'[b].is_revealed
            /\ button'[b].running = {}]_vars

\* revealed, hidden by a click, revealed again and hidden by the second timer
C17_Witness ==
  \E b \in Buttons : /\ hist[b].toggles = 3
                     /\ button[b].timers_made = 2
                     /\ hist[b].timeouts = 1
                     /\ hist[b].last = "timeout"
                     /\ ~button[b].is_revealed

----------------------------------------------------------------------------
(* Independence of the widgets *)

\* is_revealed, the reveal timer (the object and whether it is scheduled),
\* is_copied and the clipboard-clear timer of a widget
Controller(w) ==
  <<w.is_revealed, w.reveal_timer, w.running, w.is_copied,
    w.clipboard_clear_timer, w.clip_running>>

\* C14: an operation on one widget (toggle_reveal, auto_hide, on_clicked,
\* execute_command, a timer expiry) leaves is_revealed, the reveal timer,
\* is_copied and the clipboard-clear timer of every other widget unchanged.
C14_NoSharedState ==
  [][\A a \in Buttons :
       (button'[a] # button[a] \/ hist'[a] # hist[a]) =>
         \A b \in Buttons \ {a} : Controller(button'[b]) = Controller(button[b])]_vars

\* A is revealed and copied, both of its timers pending, B never touched
C14_Witness ==
  /\ button["A"].is_revealed /\ button["A"].running # {}
  /\ button["A"].is_copied /\ button["A"].clip_running # {}
  /\ ~button["B"].is_revealed /\ ~button["B"].is_copied
  /\ button["B"].reveal_timer = NoTimer
  /\ button["B"].clipboard_clear_timer = NoTimer
  /\ hist["B"] = NewHist

----------------------------------------------------------------------------
(* Properties of the quick access panel *)

\* C16: the panel has a button for each action its module documentation
\* lists, the browser included, so that a click can emit each of the
\* corresponding signals.
C16_DocumentedActionsHaveButtons ==
  \A a \in DOMAIN Documented :
    \E i \in 1..Len(panel.buttons) : Handlers[panel.buttons[i]] = Documented[a]

----------------------------------------------------------------------------
(* Properties of the bookmarks panel *)

\* C20: after refresh_bookmarks the list layout holds one BookmarkItemWidget
\* per bookmark of db.get_bookmarks(), in the same order and with its id,
\* title and url, and nothing from before; with no bookmarks it holds the
\* placeholder label alone; a second refresh against the same database
\* gives the same list.
C20_LayoutMatchesDatabase ==
  bookmarks.last = "refresh" =>
    LET rows == bookmarks.db
        layout == bookmarks.layout
    IN  /\ rows = <<>> => layout = <<NoBookmarksLabel>>
        /\ rows # <<>> =>
             /\ Len(layout) = Len(rows)
             /\ \A i \in 1..Len(rows) :
                  layout[i] = <<"BookmarkItemWidget", rows[i].id, rows[i].title,
                                rows[i].url>>
        /\ refresh_bookmarks(bookmarks).layout = layout

\* a list of two bookmarks shown in place of another list
C20_Witness ==
  /\ bookmarks.last = "refresh"
  /\ Len(bookmarks.db) = 2
  /\ bookmarks.before # <<>>
  /\ bookmarks.before # bookmarks.layout
  /\ bookmarks.before # <<NoBookmarksLabel>>

\* C21: _on_delete_bookmark refreshes the list only when db.delete_bookmark
\* reports success, and the deleted bookmark is then no longer shown; when the
\* deletion reports failure the list shown stays as it was.
C21_RefreshOnlyOnSuccess ==
  /\ bookmarks.last = "deleted" =>
       /\ \A i \in 1..Len(bookmarks.layout) :
            bookmarks.layout[i][1] = "BookmarkItemWidget"
              => bookmarks.layout[i][2] # bookmarks.arg
       /\ bookmarks.layout = refresh_bookmarks(bookmarks).layout
       /\ \E i \in 1..Len(bookmarks.before) :
            bookmarks.before[i][2] = bookmarks.arg
  /\ bookmarks.last = "delete_failed" => bookmarks.layout = bookmarks.before

\* a failed deletion while the list shown is behind the database
C21_Witness ==
  /\ bookmarks.last = "delete_failed"
  /\ bookmarks.layout # refresh_bookmarks(bookmarks).layout
  /\ \E i \in 1..Len(bookmarks.layout) : bookmarks.layout[i][2] = bookmarks.arg

----------------------------------------------------------------------------
(* Properties of the project card *)

\* C22: show_copied_indicator is true exactly while copied_timer is running;
\* a left click sets the indicator and restarts the one timer, and only the
\* expiry scheduled by the latest click clears the indicator, restoring the
\* style of the card.
C22_IndicatorIffTimerRunning ==
  /\ [](/\ card.show_copied_indicator <=> card.scheduled > 0
        /\ card.scheduled <= 1
        /\ card.show_copied_indicator => card.style = CopiedCardStyle
        /\ ~card.show_copied_indicator => card.style = BaseCardStyle(card.item_type)
        /\ card.last = "LeftButton" => card.show_copied_indicator)
  /\ [][card.show_copied_indicator /\ ~card'.show_copied_indicator
          => card'.last = "timeout" /\ card'.scheduled = 0]_vars

\* two left clicks, then the timer cleared the indicator
C22_Witness ==
  /\ card.emitted = 2
  /\ card.last = "timeout"
  /\ ~card.show_copied_indicator
  /\ card.style = BaseCardStyle(card.item_type)

----------------------------------------------------------------------------
(* Properties of the click feedback *)

----------------------------------------------------------------------------
(* Properties of the handlers of the quick access panel *)

\* C24: every action handler emits its own signal, once, and then hides the
\* panel: a click on an action button adds the one signal of its handler,
\* the emission comes before the hide and the panel is hidden afterwards; no
\* two handlers emit the same signal and each signal emitted is a declared
\* one.
C24_EmitOwnSignalThenHide ==
  /\ [][panel'.emitted # panel.emitted =>
          \E i \in 1..Len(panel.buttons) :
            LET h == panel.buttons[i]
            IN  /\ panel.visible /\ ~panel'.visible
                /\ panel'.emitted = Append(panel.emitted, Handlers[h])
                /\ panel'.last = << <<"emit", Handlers[h]>>, <<"hide", h>> >>]_vars
  /\ [](\A h \in DOMAIN Handlers :
          LET q == PanelHandler(panel, h)
          IN  /\ ~q.visible
              /\ Len(q.emitted) = Len(panel.emitted) + 1
              /\ q.last[1] = <<"emit", Handlers[h]>> /\ q.last[2][1] = "hide"
              /\ Handlers[h] \in Signals
              /\ \A g \in DOMAIN Handlers : Handlers[g] = Handlers[h] => g = h)

\* two clicks on different action buttons, the panel hidden by the second
C24_Witness ==
  /\ ~panel.visible
  /\ Len(panel.emitted) = 2
  /\ panel.emitted[1] # panel.emitted[2]
  /\ panel.last[1] = <<"emit", panel.emitted[2]>>

----------------------------------------------------------------------------
(* Properties of the timed feedback of the action buttons *)

\* C25: after any clicks on an action button with timed feedback, also
\* clicks made while an earlier reset is pending, the style of the button
\* returns to its base style and stays: once no reset is pending any more,
\* every action button has its base style.  Stated for the resets that ran
\* (a reset whose lambda raised for want of original_style restores nothing).
C25_StyleReturnsToBase ==
  \A b \in Buttons :
    (button[b].action_pending = <<>> /\ ~hist[b].callback_error) =>
      \A which \in ActionButtons : button[b].action_style[which] = "base"

----------------------------------------------------------------------------
(* Properties of the clipboard-clear timer across items *)

\* C26: the clipboard-clear timer of a sensitive item erases only what was
\* copied from that item: when it fires while the clipboard holds something
\* else, copied later from another item, the clipboard keeps that content.
C26_ClearsOnlyOwnContent ==
  [][\A a \in Buttons :
       (hist'[a].clip_fires # hist[a].clip_fires
          /\ clipboard # CopyToClipboard(item[a]))
         => clipboard' = clipboard]_vars

----------------------------------------------------------------------------
(* Properties of the arguments of track_execution_end *)

\* C27: whenever a handler calls track_execution_end with success = true the
\* error argument is None, and whenever the error is not None success is
\* false, also when something fails after the action itself succeeded.
C27_SuccessHasNoError ==
  \A b \in Buttons :
    \A t \in {hist[b].op.tracker, hist[b].call.tracker} :
      \A i \in 1..Len(t) :
        t[i].op = "end" => ~(t[i].success /\ t[i].error # None)

----------------------------------------------------------------------------
(* Properties of the ConfigManager of _resolve_path *)

\* C28: every ConfigManager that _resolve_path opened is closed when it
\* returns, on the normal path and when FileManager(...) or
\* get_absolute_path fails.
C28_ConfigManagerClosed ==
  \A b \in Buttons :
    \A i \in 1..Len(hist[b].op.resolve) :
      hist[b].op.resolve[i].closed = hist[b].op.resolve[i].opened

====
